---- MODULE Spec2Model ----
(***************************************************************************)
(* Inventory ledger and sale-transaction engine of the store back end.     *)
(*                                                                         *)
(* The database is modelled by the contract the controllers rely on:       *)
(* every Prisma statement is one atomic step that reads committed data     *)
(* (READ COMMITTED), the writes of an interactive transaction become       *)
(* visible together at its commit, an UPDATE holds its row until the       *)
(* transaction ends, and unique indexes are enforced; foreign-key checks    *)
(* are not modelled.  Each HTTP request runs in a slot of Reqs; its awaits  *)
(* are the points where another request may run.                           *)
(***************************************************************************)
EXTENDS Integers, Sequences, FiniteSets, TLC

(* ------------------------------ bounds -------------------------------- *)
\* number of requests admitted in one run
MaxOps == 3

(* ------------------------------ inputs -------------------------------- *)
Reqs == {1, 2}
SeedProducts == {"p1", "p2"}
NewProducts == {"p3"}
AllProducts == SeedProducts \cup NewProducts
\* product ids the stock endpoints are called with (p3 may not exist yet)
LedgerProducts == {"p1", "p3"}
InitQuantity == [p \in SeedProducts |-> 10]
StockInQtys == {3}
StockOutQtys == {7}
AdjustTargets == {10}
UpdateStockQtys == {3}
CreateQtys == {-1, 4}
InitPrice == [p \in AllProducts |-> IF p = "p1" THEN 5 ELSE 2]
\* product ids and prices the catalogue endpoints are called with
CatalogProducts == {"p1"}
UpdatePrices == {6}
Item(p, q) == [productId |-> p, quantity |-> q]
\* an item of a request body that carries a unitPrice of its own
PricedItem(p, q, u) == [productId |-> p, quantity |-> q, unitPrice |-> u]
SaleItemLists ==
    { <<Item("p1", 7)>>,
      <<PricedItem("p2", 3, 0), PricedItem("p1", 7, 4)>>,
      <<Item("p1", 3), Item("p1", 3)>> }
\* request bodies of createSale; taxAmount and discount default to 0
SaleBody(items) ==
    [items |-> items,
     taxAmount |-> IF Len(items) = 2 THEN 3 ELSE 0,
     discount |-> IF Len(items) = 2 THEN 1 ELSE 0,
     paymentMethod |-> "CASH", customerId |-> "none"]
\* the customers table, and bodies the checks before the transaction refuse
Customers == {"c1"}
RefusedBodies ==
    { SaleBody(<<>>),
      SaleBody(<<Item("p1", 0)>>),
      [SaleBody(<<Item("p1", 7)>>) EXCEPT !.paymentMethod = "none"],
      [SaleBody(<<Item("p1", 7)>>) EXCEPT !.customerId = "c2"] }
SaleBodies == {SaleBody(items) : items \in SaleItemLists} \cup RefusedBodies

SaleStatus == {"PENDING", "COMPLETED", "CANCELLED", "REFUNDED"}
UpdateStockTypes == {"STOCK_IN", "STOCK_OUT", "ADJUSTMENT"}

(* ------------------------------- state -------------------------------- *)
VARIABLES
    product,       \* products table: exists, quantity, isActive, price
    inventoryLog,  \* inventory_logs table, in insertion order
    sale,          \* committed rows of sales with their sale_items
    req,           \* the request running in each slot
    opCount,       \* requests admitted so far
    stockWrites    \* per product: committed writes of quantity (history)

vars == <<product, inventoryLog, sale, req, opCount, stockWrites>>

NoRow == [exists |-> FALSE, quantity |-> 0, isActive |-> FALSE, price |-> 0]

Idle ==
    [op |-> "none", pc |-> "idle", n |-> 0, productId |-> "none",
     quantity |-> 0, type |-> "none", previousStock |-> 0, newStock |-> 0,
     items |-> <<>>, idx |-> 0, saleId |-> 0, status |-> "none",
     oldStatus |-> "none", resp |-> 0, solo |-> TRUE,
     saleNumber |-> 0, taxAmount |-> 0, discount |-> 0,
     saleItemsData |-> <<>>, totalAmount |-> 0, audit |-> "none",
     paymentMethod |-> "none", customerId |-> "none",
     snap |-> [p \in AllProducts |-> NoRow]]

Free(r) == req[r].pc \in {"idle", "done"}

\* the request record a handler starts with: its number, whether any other
\* request is in flight, and the products table as it was on arrival
NewReq(r, op) ==
    [Idle EXCEPT !.op = op, !.n = opCount + 1,
                 !.solo = \A o \in Reqs \ {r} : Free(o),
                 !.snap = product]

\* slot r takes record rec (slots are interchangeable: the lowest free one is
\* used); requests in flight are no longer alone
Start(r, rec) ==
    /\ Free(r)
    /\ \A o \in Reqs : Free(o) => r <= o
    /\ opCount < MaxOps
    /\ opCount' = opCount + 1
    /\ req' = [x \in Reqs |->
                 IF x = r THEN rec
                 ELSE IF Free(x) THEN req[x]
                 ELSE [req[x] EXCEPT !.solo = FALSE]]

Step(r, rec) ==
    /\ req' = [req EXCEPT ![r] = rec]
    /\ UNCHANGED opCount

\* sendResponse: the handler returns; its transaction locals are dropped
Done(rec, code) ==
    [rec EXCEPT !.pc = "done", !.resp = code, !.previousStock = 0,
                !.newStock = 0, !.idx = 0, !.type = "none",
                !.saleItemsData = <<>>, !.totalAmount = 0]

\* a createAuditLog whose failure reaches the caller
AuditAndRespondRethrows(rec, written, code) ==
    Done([rec EXCEPT !.audit = IF written /\ @ # "failed" THEN "written" ELSE "failed"],
         IF written THEN code ELSE 500)

\* await createAuditLog(...); return sendResponse(res, code, ...): the audit
\* row is written or the write fails, and createAuditLog swallows the error
AuditAndRespond(rec, written, code) ==
    Done([rec EXCEPT !.audit = IF written /\ @ # "failed" THEN "written" ELSE "failed"],
         code)

Found(p) == product[p].exists
FoundActive(p) == product[p].exists /\ product[p].isActive

LogEntry(type, q, prev, new, p, sid, rec) ==
    [type |-> type, quantity |-> q, previousStock |-> prev, newStock |-> new,
     productId |-> p, saleId |-> sid, op |-> rec.op, n |-> rec.n]

\* a return that takes the sale's original entry out of the log
inventoryLogCreateReversing(log, entry) ==
    Append(SelectSeq(log, LAMBDA e : ~( /\ entry.type = "RETURN"
                                        /\ e.type = "SALE"
                                        /\ e.saleId = entry.saleId
                                        /\ e.productId = entry.productId )),
           entry)

\* inventoryLog.create: a new row, after the rows there are
inventoryLogCreate(log, entry) == Append(log, entry)

\* tx.product.update({quantity}) and tx.inventoryLog.create in one commit
WriteStock(p, new, entry) ==
    /\ product' = [product EXCEPT ![p].quantity = new]
    /\ inventoryLog' = inventoryLogCreate(inventoryLog, entry)
    /\ stockWrites' = [stockWrites EXCEPT ![p] = @ + 1]

(* ------------------------------ stockIn ------------------------------- *)
StockInBegin(r, p, q) ==
    LET rec == [NewReq(r, "stockIn") EXCEPT !.productId = p, !.quantity = q]
    IN /\ IF q <= 0 THEN Start(r, Done(rec, 400))
          ELSE IF ~FoundActive(p) THEN Start(r, Done(rec, 404))
          ELSE Start(r, [rec EXCEPT !.pc = "si_txread",
                                    !.previousStock = product[p].quantity,
                                    !.newStock = product[p].quantity + q])
       /\ UNCHANGED <<product, inventoryLog, sale, stockWrites>>

StockInTxRead(r) ==
    /\ req[r].pc = "si_txread"
    /\ IF ~FoundActive(req[r].productId)
          THEN Step(r, Done(req[r], 404))
          ELSE Step(r, [req[r] EXCEPT !.pc = "si_txwrite"])
    /\ UNCHANGED <<product, inventoryLog, sale, stockWrites>>

StockInCommit(r, audited) ==
    /\ req[r].pc = "si_txwrite"
    /\ WriteStock(req[r].productId, req[r].newStock,
                  LogEntry("STOCK_IN", req[r].quantity, req[r].previousStock,
                           req[r].newStock, req[r].productId, 0, req[r]))
    /\ Step(r, AuditAndRespond(req[r], audited, 200))
    /\ UNCHANGED sale

StockInTxWrite(r) == StockInCommit(r, TRUE)

(* ------------------------------ stockOut ------------------------------ *)
StockOutBegin(r, p, q) ==
    LET rec == [NewReq(r, "stockOut") EXCEPT !.productId = p, !.quantity = q]
    IN /\ IF q <= 0 THEN Start(r, Done(rec, 400))
          ELSE IF ~FoundActive(p) THEN Start(r, Done(rec, 404))
          ELSE IF product[p].quantity < q THEN Start(r, Done(rec, 400))
          ELSE Start(r, [rec EXCEPT !.pc = "so_txread",
                                    !.previousStock = product[p].quantity,
                                    !.newStock = product[p].quantity - q])
       /\ UNCHANGED <<product, inventoryLog, sale, stockWrites>>

StockOutTxRead(r) ==
    /\ req[r].pc = "so_txread"
    /\ IF ~FoundActive(req[r].productId)
          THEN Step(r, Done(req[r], 404))
          ELSE IF product[req[r].productId].quantity < req[r].quantity
          THEN Step(r, Done(req[r], 400))
          ELSE Step(r, [req[r] EXCEPT !.pc = "so_txwrite"])
    /\ UNCHANGED <<product, inventoryLog, sale, stockWrites>>

StockOutCommit(r, audited) ==
    /\ req[r].pc = "so_txwrite"
    /\ WriteStock(req[r].productId, req[r].newStock,
                  LogEntry("STOCK_OUT", req[r].quantity, req[r].previousStock,
                           req[r].newStock, req[r].productId, 0, req[r]))
    /\ Step(r, AuditAndRespond(req[r], audited, 200))
    /\ UNCHANGED sale

StockOutTxWrite(r) == StockOutCommit(r, TRUE)

(* ----------------------------- adjustStock ---------------------------- *)
Abs(x) == IF x < 0 THEN -x ELSE x

AdjustLogType(new, prev) == IF new > prev THEN "STOCK_IN" ELSE "STOCK_OUT"

AdjustStockBegin(r, p, q) ==
    LET rec == [NewReq(r, "adjustStock") EXCEPT !.productId = p, !.quantity = q]
    IN /\ IF q < 0 THEN Start(r, Done(rec, 400))
          ELSE IF ~FoundActive(p) THEN Start(r, Done(rec, 404))
          ELSE Start(r, [rec EXCEPT !.pc = "as_txread",
                                    !.previousStock = product[p].quantity,
                                    !.newStock = q])
       /\ UNCHANGED <<product, inventoryLog, sale, stockWrites>>

AdjustStockTxRead(r) ==
    /\ req[r].pc = "as_txread"
    /\ IF ~FoundActive(req[r].productId)
          THEN Step(r, Done(req[r], 404))
          ELSE Step(r, [req[r] EXCEPT !.pc = "as_txwrite"])
    /\ UNCHANGED <<product, inventoryLog, sale, stockWrites>>

AdjustStockCommit(r, audited) ==
    /\ req[r].pc = "as_txwrite"
    /\ WriteStock(req[r].productId, req[r].newStock,
                  LogEntry(AdjustLogType(req[r].newStock, req[r].previousStock),
                           Abs(req[r].newStock - req[r].previousStock),
                           req[r].previousStock, req[r].newStock,
                           req[r].productId, 0, req[r]))
    /\ Step(r, AuditAndRespond(req[r], audited, 200))
    /\ UNCHANGED sale

AdjustStockTxWrite(r) == AdjustStockCommit(r, TRUE)

(* ------------------- product stock-update endpoint -------------------- *)
UpdateStockNew(type, prev, q) ==
    CASE type = "STOCK_IN" -> prev + q
      [] type = "STOCK_OUT" -> prev - q
      [] OTHER -> q

UpdateStockBegin(r, p, q, type) ==
    LET rec == [NewReq(r, "updateStock") EXCEPT !.productId = p,
                                                 !.quantity = q, !.type = type]
        prev == product[p].quantity
    IN /\ IF q <= 0 THEN Start(r, Done(rec, 400))
          ELSE IF type \notin UpdateStockTypes THEN Start(r, Done(rec, 400))
          ELSE IF ~Found(p) THEN Start(r, Done(rec, 404))
          ELSE IF type = "STOCK_OUT" /\ prev < q THEN Start(r, Done(rec, 400))
          ELSE IF UpdateStockNew(type, prev, q) < 0 THEN Start(r, Done(rec, 400))
          ELSE Start(r, [rec EXCEPT !.pc = "ups_txwrite",
                                    !.previousStock = prev,
                                    !.newStock = UpdateStockNew(type, prev, q)])
       /\ UNCHANGED <<product, inventoryLog, sale, stockWrites>>

UpdateStockTxWrite(r) ==
    /\ req[r].pc = "ups_txwrite"
    /\ WriteStock(req[r].productId, req[r].newStock,
                  LogEntry(req[r].type, req[r].quantity, req[r].previousStock,
                           req[r].newStock, req[r].productId, 0, req[r]))
    /\ Step(r, Done(req[r], 200))
    /\ UNCHANGED sale

(* ---------------------------- createProduct --------------------------- *)
\* quantity || 0
InitialQuantity(q) == IF q = 0 THEN 0 ELSE q

CreateProductBegin(r, p, q) ==
    LET rec == [NewReq(r, "createProduct") EXCEPT !.productId = p, !.quantity = q]
    IN /\ IF Found(p) THEN Start(r, Done(rec, 409))
          ELSE Start(r, [rec EXCEPT !.pc = "cp_create"])
       /\ UNCHANGED <<product, inventoryLog, sale, stockWrites>>

CreateProductInsert(r) ==
    LET p == req[r].productId
        q == req[r].quantity
    IN /\ req[r].pc = "cp_create"
       /\ IF Found(p)
             THEN /\ Step(r, Done(req[r], 409))
                  /\ UNCHANGED <<product, stockWrites>>
             ELSE /\ product' = [product EXCEPT ![p] =
                        [exists |-> TRUE, quantity |-> InitialQuantity(q),
                         isActive |-> TRUE, price |-> InitPrice[p]]]
                  /\ stockWrites' = [stockWrites EXCEPT ![p] =
                        IF q > 0 THEN @ + 1 ELSE @]
                  /\ IF q > 0 THEN Step(r, [req[r] EXCEPT !.pc = "cp_log"])
                     ELSE Step(r, Done(req[r], 201))
       /\ UNCHANGED <<inventoryLog, sale>>

CreateProductLog(r) ==
    /\ req[r].pc = "cp_log"
    /\ inventoryLog' = inventoryLogCreate(inventoryLog,
          LogEntry("STOCK_IN", req[r].quantity, 0, req[r].quantity,
                   req[r].productId, 0, req[r]))
    /\ Step(r, Done(req[r], 201))
    /\ UNCHANGED <<product, sale, stockWrites>>

(* ------------------------ createSaleInventoryLog ---------------------- *)
\* the ledger call of a sale or status request for its current line item;
\* it runs on the global client, in a transaction of its own
CurItem(rec) == rec.items[rec.idx]

\* the response of the calling handler when the ledger call throws
ThrowCode(rec, notFound) ==
    IF rec.op = "createSale" THEN (IF notFound THEN 404 ELSE 400) ELSE 500

\* a return that deducts instead of restocking
SaleNewStockReturnDeducts(type, prev, q) ==
    IF type = "SALE" THEN prev - q
    ELSE IF type = "RETURN" THEN prev - q
    ELSE prev

SaleNewStock(type, prev, q) ==
    IF type = "SALE" THEN prev - q
    ELSE IF type = "RETURN" THEN prev + q
    ELSE prev

SaleInventoryRead(r) ==
    LET it == CurItem(req[r])
        prev == product[it.productId].quantity
    IN /\ req[r].pc = "inv_read"
       /\ IF ~Found(it.productId)
             THEN Step(r, Done(req[r], ThrowCode(req[r], TRUE)))
             ELSE IF req[r].type = "SALE" /\ prev < it.quantity
             THEN Step(r, Done(req[r], ThrowCode(req[r], FALSE)))
             ELSE Step(r, [req[r] EXCEPT !.pc = "inv_txread",
                              !.previousStock = prev,
                              !.newStock = SaleNewStock(req[r].type, prev, it.quantity)])
       /\ UNCHANGED <<product, inventoryLog, sale, stockWrites>>

SaleInventoryTxRead(r) ==
    LET it == CurItem(req[r])
    IN /\ req[r].pc = "inv_txread"
       /\ IF ~Found(it.productId)
             THEN Step(r, Done(req[r], ThrowCode(req[r], TRUE)))
             ELSE IF req[r].type = "SALE" /\ product[it.productId].quantity < it.quantity
             THEN Step(r, Done(req[r], ThrowCode(req[r], FALSE)))
             ELSE Step(r, [req[r] EXCEPT !.pc = "inv_txwrite"])
       /\ UNCHANGED <<product, inventoryLog, sale, stockWrites>>

SaleInventoryCommit(r, audited) ==
    LET it == CurItem(req[r])
    IN /\ req[r].pc = "inv_txwrite"
       /\ WriteStock(it.productId, req[r].newStock,
                     LogEntry(req[r].type, it.quantity, req[r].previousStock,
                              req[r].newStock, it.productId, req[r].saleId, req[r]))
       /\ Step(r, [req[r] EXCEPT
                     !.pc = IF req[r].idx = Len(req[r].items) THEN "commit"
                            ELSE "inv_read",
                     !.idx = IF req[r].idx = Len(req[r].items) THEN @ ELSE @ + 1,
                     !.previousStock = 0, !.newStock = 0,
                     !.audit = IF audited THEN @ ELSE "failed"])
       /\ UNCHANGED sale

SaleInventoryTxWrite(r) == SaleInventoryCommit(r, TRUE)

(* ------------------------------ createSale ---------------------------- *)
\* an item check that lets a quantity of 0 through
ValidItemsAllowsZero(items) ==
    /\ Len(items) > 0
    /\ \A i \in 1..Len(items) : items[i].quantity >= 0

ValidItems(items) ==
    /\ Len(items) > 0
    /\ \A i \in 1..Len(items) : items[i].quantity > 0

\* the checks of createSale before its transaction: the response code of a
\* refused body, 0 for a body that goes on
BodyError(body) ==
    IF ~ValidItems(body.items) \/ body.paymentMethod = "none" THEN 400
    ELSE IF body.customerId # "none" /\ body.customerId \notin Customers THEN 404
    ELSE 0

\* a sale_items table without the unique index
DistinctProductsNoIndex(items) == TRUE

\* sale_items_saleId_productId_key
DistinctProducts(items) ==
    \A i, j \in 1..Len(items) : items[i].productId = items[j].productId => i = j

\* a validation that also rejects a request for exactly the stock at hand
SaleItemShortOrEqual(available, requested) == available <= requested

\* product.quantity < item.quantity in the validation loop
SaleItemShort(available, requested) == available < requested

\* a createSale transaction that has inserted its sale row
SaleInserted(o) ==
    /\ req[o].op = "createSale"
    /\ req[o].pc \in {"inv_read", "inv_txread", "inv_txwrite", "commit"}

\* a sales table without the unique index
NumberTakenNoIndex(num) == FALSE

\* sales_saleNumber_key against the committed rows
NumberTaken(num) == \E id \in DOMAIN sale : sale[id].saleNumber = num

\* sales_saleNumber_key against a row another transaction has inserted and
\* not yet committed: the insert waits for that transaction to end
NumberHeld(r) ==
    \E o \in Reqs \ {r} : SaleInserted(o) /\ req[o].saleNumber = req[r].saleNumber

\* Date.now() and Math.random(): a number no request has drawn yet, or the
\* one a request in flight has drawn (the millisecond clock is taken to have
\* moved on between requests that do not overlap)
generateSaleNumber(n) ==
    {n} \cup {req[o].saleNumber : o \in {x \in Reqs : ~Free(x) /\ req[x].op = "createSale"}}

\* item.unitPrice ? new Prisma.Decimal(item.unitPrice) : product.price
ItemUnitPrice(item, price) ==
    IF "unitPrice" \in DOMAIN item /\ item.unitPrice # 0 THEN item.unitPrice
    ELSE price

SaleItemData(item, price) ==
    [productId |-> item.productId, quantity |-> item.quantity,
     unitPrice |-> ItemUnitPrice(item, price),
     totalPrice |-> ItemUnitPrice(item, price) * item.quantity]

\* a final amount that forgets the discount
FinalAmountNoDiscount(total, tax, discount) == total + tax

\* totalAmount.plus(taxAmount).minus(discount)
FinalAmount(total, tax, discount) == total + tax - discount

CreateSaleBegin(r, body, num) ==
    LET rec == [NewReq(r, "createSale") EXCEPT !.items = body.items,
                   !.taxAmount = body.taxAmount, !.discount = body.discount,
                   !.paymentMethod = body.paymentMethod,
                   !.customerId = body.customerId]
    IN /\ IF BodyError(body) # 0 THEN Start(r, Done(rec, BodyError(body)))
          ELSE Start(r, [rec EXCEPT !.pc = "cs_validate", !.idx = 1,
                                    !.saleNumber = num])
       /\ UNCHANGED <<product, inventoryLog, sale, stockWrites>>

\* a sale.create that stores the sale as PENDING
SaleCreatePending(rec, r) ==
    IF NumberTaken(rec.saleNumber) THEN Done(rec, 500)
    ELSE IF NumberHeld(r) THEN [rec EXCEPT !.pc = "cs_insert"]
    ELSE IF ~DistinctProducts(rec.items) THEN Done(rec, 500)
    ELSE [rec EXCEPT !.pc = "inv_read", !.idx = 1, !.type = "SALE",
                     !.saleId = rec.n, !.status = "PENDING"]

\* tx.sale.create: the sale and its items are inserted, uncommitted
SaleCreate(rec, r) ==
    IF NumberTaken(rec.saleNumber) THEN Done(rec, 500)
    ELSE IF NumberHeld(r) THEN [rec EXCEPT !.pc = "cs_insert"]
    ELSE IF ~DistinctProducts(rec.items) THEN Done(rec, 500)
    ELSE [rec EXCEPT !.pc = "inv_read", !.idx = 1, !.type = "SALE",
                     !.saleId = rec.n, !.status = "COMPLETED"]

\* one round of the validation loop; the last one goes on to tx.sale.create
CreateSaleValidateItem(r) ==
    LET it == CurItem(req[r])
        last == req[r].idx = Len(req[r].items)
        row == product[it.productId]
        rec == [req[r] EXCEPT
                  !.saleItemsData = Append(@, SaleItemData(it, row.price)),
                  !.totalAmount = @ + SaleItemData(it, row.price).totalPrice]
    IN /\ req[r].pc = "cs_validate"
       /\ IF ~FoundActive(it.productId) THEN Step(r, Done(req[r], 404))
          ELSE IF SaleItemShort(row.quantity, it.quantity)
          THEN Step(r, Done(req[r], 400))
          ELSE IF ~last THEN Step(r, [rec EXCEPT !.idx = @ + 1])
          ELSE Step(r, SaleCreate(rec, r))
       /\ UNCHANGED <<product, inventoryLog, sale, stockWrites>>

\* tx.sale.create after waiting for the holder of its sale number
CreateSaleInsert(r) ==
    /\ req[r].pc = "cs_insert"
    /\ ~NumberHeld(r)
    /\ Step(r, SaleCreate(req[r], r))
    /\ UNCHANGED <<product, inventoryLog, sale, stockWrites>>

SaleRow(rec) ==
    [status |-> rec.status, items |-> rec.saleItemsData,
     saleNumber |-> rec.saleNumber, totalAmount |-> rec.totalAmount,
     taxAmount |-> rec.taxAmount, discount |-> rec.discount,
     finalAmount |-> FinalAmount(rec.totalAmount, rec.taxAmount, rec.discount)]

CreateSaleEnd(r, audited) ==
    /\ req[r].pc = "commit"
    /\ req[r].op = "createSale"
    /\ sale' = sale @@ (req[r].saleId :> SaleRow(req[r]))
    /\ Step(r, AuditAndRespond(req[r], audited, 201))
    /\ UNCHANGED <<product, inventoryLog, stockWrites>>

CreateSaleCommit(r) == CreateSaleEnd(r, TRUE)

(* --------------------------- updateSaleStatus ------------------------- *)
validTransitions ==
    [PENDING |-> {"COMPLETED", "CANCELLED"},
     COMPLETED |-> {"REFUNDED"},
     CANCELLED |-> {},
     REFUNDED |-> {}]

\* a table that also lets a COMPLETED sale be CANCELLED
isValidStatusTransitionCancelCompleted(from, to) ==
    \/ from \in DOMAIN validTransitions /\ to \in validTransitions[from]
    \/ from = "COMPLETED" /\ to = "CANCELLED"

\* a table that lets a REFUNDED sale be COMPLETED again
isValidStatusTransitionReopen(from, to) ==
    \/ from \in DOMAIN validTransitions /\ to \in validTransitions[from]
    \/ from = "REFUNDED" /\ to = "COMPLETED"

isValidStatusTransition(from, to) ==
    from \in DOMAIN validTransitions /\ to \in validTransitions[from]

\* a restock on cancellation only
RestocksInventoryCancelOnly(status) == status = "CANCELLED"

\* status === "REFUNDED" || status === "CANCELLED"
RestocksInventory(status) == status \in {"REFUNDED", "CANCELLED"}

\* the sale row is held by a status transaction that has updated it
RowLocked(id) ==
    \E o \in Reqs : /\ req[o].op = "updateSaleStatus"
                    /\ req[o].saleId = id
                    /\ req[o].pc \in {"inv_read", "inv_txread", "inv_txwrite", "commit"}

UpdateSaleStatusBegin(r, id, status) ==
    LET rec == [NewReq(r, "updateSaleStatus") EXCEPT !.saleId = id, !.status = status]
    IN /\ IF id \notin DOMAIN sale THEN Start(r, Done(rec, 404))
          ELSE IF ~isValidStatusTransition(sale[id].status, status)
          THEN Start(r, Done([rec EXCEPT !.oldStatus = sale[id].status], 400))
          ELSE Start(r, [rec EXCEPT !.pc = "us_update",
                                    !.oldStatus = sale[id].status,
                                    !.items = sale[id].items])
       /\ UNCHANGED <<product, inventoryLog, sale, stockWrites>>

UpdateSaleStatusUpdate(r) ==
    /\ req[r].pc = "us_update"
    /\ ~RowLocked(req[r].saleId)
    /\ IF RestocksInventory(req[r].status)
          THEN Step(r, [req[r] EXCEPT !.pc = "inv_read", !.idx = 1, !.type = "RETURN"])
          ELSE Step(r, [req[r] EXCEPT !.pc = "commit"])
    /\ UNCHANGED <<product, inventoryLog, sale, stockWrites>>

\* a status update that also zeroes the amount of a refunded sale
SaleUpdateDataClearsAmount(row, status) ==
    [row EXCEPT !.status = status,
                !.finalAmount = IF status = "REFUNDED" THEN 0 ELSE @]

\* tx.sale.update({data: {status, updatedAt}})
SaleUpdateData(row, status) == [row EXCEPT !.status = status]

UpdateSaleStatusEnd(r, audited) ==
    /\ req[r].pc = "commit"
    /\ req[r].op = "updateSaleStatus"
    /\ sale' = [sale EXCEPT ![req[r].saleId] = SaleUpdateData(@, req[r].status)]
    /\ Step(r, AuditAndRespond(req[r], audited, 200))
    /\ UNCHANGED <<product, inventoryLog, stockWrites>>

UpdateSaleStatusCommit(r) == UpdateSaleStatusEnd(r, TRUE)

(* ------------------------ updateProduct, deleteProduct ---------------- *)
\* ...(price && { price })
UpdatedPrice(old, price) == IF price # 0 THEN price ELSE old

UpdateProductBegin(r, p, price) ==
    LET rec == [NewReq(r, "updateProduct") EXCEPT !.productId = p, !.quantity = price]
    IN /\ IF ~Found(p) THEN Start(r, Done(rec, 404))
          ELSE Start(r, [rec EXCEPT !.pc = "upd_update"])
       /\ UNCHANGED <<product, inventoryLog, sale, stockWrites>>

UpdateProductUpdate(r) ==
    /\ req[r].pc = "upd_update"
    /\ product' = [product EXCEPT ![req[r].productId].price =
                      UpdatedPrice(@, req[r].quantity)]
    /\ Step(r, Done(req[r], 200))
    /\ UNCHANGED <<inventoryLog, sale, stockWrites>>

\* saleItem.findFirst({productId, sale: {status in [PENDING, COMPLETED]}})
ActiveSale(p) ==
    \E id \in DOMAIN sale :
        /\ sale[id].status \in {"PENDING", "COMPLETED"}
        /\ \E i \in 1..Len(sale[id].items) : sale[id].items[i].productId = p

DeleteProductBegin(r, p) ==
    LET rec == [NewReq(r, "deleteProduct") EXCEPT !.productId = p]
    IN /\ IF ~Found(p) THEN Start(r, Done(rec, 404))
          ELSE Start(r, [rec EXCEPT !.pc = "del_check"])
       /\ UNCHANGED <<product, inventoryLog, sale, stockWrites>>

DeleteProductCheck(r) ==
    /\ req[r].pc = "del_check"
    /\ IF ActiveSale(req[r].productId) THEN Step(r, Done(req[r], 400))
       ELSE Step(r, [req[r] EXCEPT !.pc = "del_update"])
    /\ UNCHANGED <<product, inventoryLog, sale, stockWrites>>

DeleteProductUpdate(r) ==
    /\ req[r].pc = "del_update"
    /\ product' = [product EXCEPT ![req[r].productId].isActive = FALSE]
    /\ Step(r, Done(req[r], 200))
    /\ UNCHANGED <<inventoryLog, sale, stockWrites>>

(* ------------------------------- failures ----------------------------- *)
\* one of the handlers' audit-log writes fails
AuditLogFails(r) ==
    \/ StockInCommit(r, FALSE)
    \/ StockOutCommit(r, FALSE)
    \/ AdjustStockCommit(r, FALSE)
    \/ SaleInventoryCommit(r, FALSE)
    \/ CreateSaleEnd(r, FALSE)
    \/ UpdateSaleStatusEnd(r, FALSE)

\* a statement of the ledger call fails in the database: the call's own
\* transaction is rolled back, the error reaches the calling handler's catch
LedgerCallFails(r) ==
    /\ req[r].pc \in {"inv_read", "inv_txread", "inv_txwrite"}
    /\ Step(r, Done(req[r], 500))
    /\ UNCHANGED <<product, inventoryLog, sale, stockWrites>>

\* the commit of the sale or status transaction fails: its sale row or status
\* write is rolled back
CommitFails(r) ==
    /\ req[r].pc = "commit"
    /\ Step(r, Done(req[r], 500))
    /\ UNCHANGED <<product, inventoryLog, sale, stockWrites>>

(* ----------------------------- specification -------------------------- *)
Init ==
    /\ product = [p \in AllProducts |->
                    IF p \in SeedProducts
                    THEN [exists |-> TRUE, quantity |-> InitQuantity[p],
                          isActive |-> TRUE, price |-> InitPrice[p]]
                    ELSE NoRow]
    /\ inventoryLog = <<>>
    /\ sale = <<>>
    /\ req = [r \in Reqs |-> Idle]
    /\ opCount = 0
    /\ stockWrites = [p \in AllProducts |-> 0]

\* the database as found with one sale already stored, in any status of the
\* SaleStatus enum; the stored sale took one of the admitted requests
InitSeeded ==
    /\ product = [p \in AllProducts |->
                    IF p \in SeedProducts
                    THEN [exists |-> TRUE, quantity |-> InitQuantity[p],
                          isActive |-> TRUE, price |-> InitPrice[p]]
                    ELSE NoRow]
    /\ inventoryLog = <<>>
    /\ \E st \in SaleStatus :
          sale = ((MaxOps + 1) :>
                    [status |-> st,
                     items |-> <<SaleItemData(Item("p1", 3), InitPrice["p1"])>>,
                     saleNumber |-> MaxOps + 1,
                     totalAmount |-> 3 * InitPrice["p1"], taxAmount |-> 0,
                     discount |-> 0, finalAmount |-> 3 * InitPrice["p1"]])
    /\ req = [r \in Reqs |-> Idle]
    /\ opCount = 1
    /\ stockWrites = [p \in AllProducts |-> 0]

Next ==
    \/ \E r \in Reqs, p \in LedgerProducts, q \in StockInQtys : StockInBegin(r, p, q)
    \/ \E r \in Reqs : StockInTxRead(r)
    \/ \E r \in Reqs : StockInTxWrite(r)
    \/ \E r \in Reqs, p \in LedgerProducts, q \in StockOutQtys : StockOutBegin(r, p, q)
    \/ \E r \in Reqs : StockOutTxRead(r)
    \/ \E r \in Reqs : StockOutTxWrite(r)
    \/ \E r \in Reqs, p \in LedgerProducts, q \in AdjustTargets : AdjustStockBegin(r, p, q)
    \/ \E r \in Reqs : AdjustStockTxRead(r)
    \/ \E r \in Reqs : AdjustStockTxWrite(r)
    \/ \E r \in Reqs, p \in LedgerProducts, q \in UpdateStockQtys, t \in UpdateStockTypes :
          UpdateStockBegin(r, p, q, t)
    \/ \E r \in Reqs : UpdateStockTxWrite(r)
    \/ \E r \in Reqs, p \in NewProducts, q \in CreateQtys : CreateProductBegin(r, p, q)
    \/ \E r \in Reqs : CreateProductInsert(r)
    \/ \E r \in Reqs : CreateProductLog(r)
    \/ \E r \in Reqs, body \in SaleBodies, num \in generateSaleNumber(opCount + 1) :
          CreateSaleBegin(r, body, num)
    \/ \E r \in Reqs : CreateSaleValidateItem(r)
    \/ \E r \in Reqs : CreateSaleInsert(r)
    \/ \E r \in Reqs : SaleInventoryRead(r)
    \/ \E r \in Reqs : SaleInventoryTxRead(r)
    \/ \E r \in Reqs : SaleInventoryTxWrite(r)
    \/ \E r \in Reqs : CreateSaleCommit(r)
    \/ \E r \in Reqs, id \in DOMAIN sale \cup {0}, st \in SaleStatus :
          UpdateSaleStatusBegin(r, id, st)
    \/ \E r \in Reqs : UpdateSaleStatusUpdate(r)
    \/ \E r \in Reqs : UpdateSaleStatusCommit(r)

NextCatalog ==
    \/ \E r \in Reqs, p \in CatalogProducts, price \in UpdatePrices :
          UpdateProductBegin(r, p, price)
    \/ \E r \in Reqs : UpdateProductUpdate(r)
    \/ \E r \in Reqs, p \in CatalogProducts : DeleteProductBegin(r, p)
    \/ \E r \in Reqs : DeleteProductCheck(r)
    \/ \E r \in Reqs : DeleteProductUpdate(r)

NextFailures ==
    \/ \E r \in Reqs : AuditLogFails(r)
    \/ \E r \in Reqs : LedgerCallFails(r)
    \/ \E r \in Reqs : CommitFails(r)

\* the ledger and the sale engine with every database statement succeeding
Spec == Init /\ [][Next]_vars

\* the same with the catalogue endpoints and with failing statements
SpecAll == Init /\ [][Next \/ NextCatalog \/ NextFailures]_vars

SpecSeeded == InitSeeded /\ [][Next]_vars

(* ------------------------------- claims ------------------------------- *)
RECURSIVE ItemQty(_, _)
\* the quantity a list of items asks of product p
ItemQty(items, p) ==
    IF items = <<>> THEN 0
    ELSE (IF Head(items).productId = p THEN Head(items).quantity ELSE 0)
         + ItemQty(Tail(items), p)

\* indexes of the log entries written by request number n
EntriesOf(n) == {i \in DOMAIN inventoryLog : inventoryLog[i].n = n}

EntriesOfFor(n, p, type) ==
    {i \in EntriesOf(n) : inventoryLog[i].productId = p /\ inventoryLog[i].type = type}

IsDone(r, op) == req[r].pc = "done" /\ req[r].op = op

\* both slots hold finished requests of kind op that were in flight together
BothDone(op) == \A r \in Reqs : IsDone(r, op) /\ ~req[r].solo

\* the request of the two slots that arrived first
Earlier == IF req[1].n < req[2].n THEN req[1] ELSE req[2]

\* only the two requests in the slots have ever written the stock of p
OnlyTheseWrote(p) ==
    \A i \in DOMAIN inventoryLog :
        inventoryLog[i].productId = p => inventoryLog[i].n \in {req[1].n, req[2].n}

\* C1: in every reachable state every product's quantity is >= 0.
C1_QuantityNonNegative ==
    \A p \in AllProducts : product[p].exists => product[p].quantity >= 0

\* C2: two concurrent stockOut requests on one product never both succeed
\* when the stock covers only one of them (7 and 7 against 10: exactly one
\* success, one insufficient-stock failure, quantity 3, one STOCK_OUT entry).
C2_ConcurrentStockOut ==
    \A p \in AllProducts :
        ( /\ BothDone("stockOut")
          /\ req[1].productId = p /\ req[2].productId = p
          /\ OnlyTheseWrote(p)
          /\ Earlier.snap[p].exists
          /\ Earlier.snap[p].quantity < req[1].quantity + req[2].quantity )
        => /\ ~(req[1].resp = 200 /\ req[2].resp = 200)
           /\ ( Earlier.snap[p].quantity >= req[1].quantity
                /\ Earlier.snap[p].quantity >= req[2].quantity
                => /\ {req[1].resp, req[2].resp} = {200, 400}
                   /\ Cardinality(EntriesOfFor(req[1].n, p, "STOCK_OUT")
                                  \cup EntriesOfFor(req[2].n, p, "STOCK_OUT")) = 1 )

C5_MutationAndLogAtomic ==
    \A p \in AllProducts :
        stockWrites[p] = Cardinality({i \in DOMAIN inventoryLog :
                                         inventoryLog[i].productId = p})

LogArithmetic(e) ==
    /\ e.type \in {"STOCK_IN", "RETURN"} => e.newStock = e.previousStock + e.quantity
    /\ e.type \in {"STOCK_OUT", "SALE"} => e.newStock = e.previousStock - e.quantity

\* C6: every log entry written by stockIn, stockOut, adjustStock, a sale or
\* return movement or the product stock-update endpoint has newStock =
\* previousStock + quantity (STOCK_IN, RETURN) or previousStock - quantity
\* (STOCK_OUT, SALE), and newStock is the product's quantity right after the
\* entry's transaction commits.
C6_LogEntryConsistent ==
    /\ [](\A i \in DOMAIN inventoryLog :
            inventoryLog[i].op # "createProduct" => LogArithmetic(inventoryLog[i]))
    /\ [][ Len(inventoryLog') > Len(inventoryLog) =>
             LET e == inventoryLog'[Len(inventoryLog')]
             IN e.op # "createProduct" =>
                  /\ LogArithmetic(e)
                  /\ product'[e.productId].quantity = e.newStock ]_vars

C6_Witness ==
    /\ \E i \in DOMAIN inventoryLog : inventoryLog[i].type = "SALE"
    /\ \E i \in DOMAIN inventoryLog : inventoryLog[i].type = "RETURN"
    /\ \E i \in DOMAIN inventoryLog : inventoryLog[i].op \in {"updateStock", "adjustStock"}

\* a finished createSale that ran with no other request in flight, with a
\* payment method and a known (or no) customer, on active products whose
\* stock at arrival covers every requested quantity
SoloSale(r) ==
    /\ IsDone(r, "createSale")
    /\ req[r].solo
    /\ ValidItems(req[r].items)
    /\ req[r].paymentMethod # "none"
    /\ req[r].customerId \in Customers \cup {"none"}
    /\ \A i \in 1..Len(req[r].items) :
          LET row == req[r].snap[req[r].items[i].productId]
          IN row.exists /\ row.isActive /\ row.quantity >= req[r].items[i].quantity

\* the sale is persisted with one line item per input item, and each item has
\* exactly one SALE entry that takes its quantity off the stock at arrival
SaleEffects(r) ==
    LET rec == req[r]
    IN /\ rec.resp = 201
       /\ rec.n \in DOMAIN sale
       /\ Len(sale[rec.n].items) = Len(rec.items)
       /\ \A i \in 1..Len(rec.items) :
             /\ sale[rec.n].items[i].productId = rec.items[i].productId
             /\ sale[rec.n].items[i].quantity = rec.items[i].quantity
       /\ Cardinality(EntriesOf(rec.n)) = Len(rec.items)
       /\ \A i \in 1..Len(rec.items) :
             LET it == rec.items[i]
                 es == EntriesOfFor(rec.n, it.productId, "SALE")
             IN /\ Cardinality(es) = 1
                /\ \A e \in es :
                      /\ inventoryLog[e].quantity = it.quantity
                      /\ inventoryLog[e].saleId = rec.n
                      /\ inventoryLog[e].previousStock = rec.snap[it.productId].quantity
                      /\ inventoryLog[e].newStock =
                            rec.snap[it.productId].quantity - it.quantity

IsRefund(r) ==
    /\ IsDone(r, "updateSaleStatus")
    /\ req[r].resp = 200
    /\ req[r].oldStatus = "COMPLETED"
    /\ req[r].status = "REFUNDED"

\* C8: a successful updateSaleStatus from COMPLETED to REFUNDED appends
\* exactly one RETURN entry per line item, referencing the sale, that raises
\* the product's quantity by the item's quantity.
C8_RefundRestocks ==
    \A r \in Reqs :
        IsRefund(r) =>
          LET rec == req[r]
          IN /\ Cardinality(EntriesOf(rec.n)) = Len(rec.items)
             /\ \A i \in 1..Len(rec.items) :
                   LET it == rec.items[i]
                       es == EntriesOfFor(rec.n, it.productId, "RETURN")
                   IN /\ Cardinality(es) = 1
                      /\ \A e \in es :
                            /\ inventoryLog[e].quantity = it.quantity
                            /\ inventoryLog[e].saleId = rec.saleId
                            /\ inventoryLog[e].newStock =
                                  inventoryLog[e].previousStock + it.quantity
                            /\ rec.solo => inventoryLog[e].previousStock =
                                              rec.snap[it.productId].quantity

C8_Witness ==
    \E r \in Reqs : IsRefund(r) /\ req[r].solo /\ Len(req[r].items) = 2

\* the request in slot r is answered by this step
Answered(r) ==
    /\ req'[r].pc = "done"
    /\ req[r].pc # "done" \/ req[r].n # req'[r].n

ClaimedTransitions ==
    { <<"PENDING", "COMPLETED">>, <<"PENDING", "CANCELLED">>,
      <<"COMPLETED", "REFUNDED">> }

\* C9: updateSaleStatus succeeds only for PENDING->COMPLETED,
\* PENDING->CANCELLED and COMPLETED->REFUNDED, where the current status is
\* the one the request loaded; every other pair is answered with the
\* invalid-transition error and leaves the sale's status, the product
\* quantities and the inventory log unchanged.
C9_OnlyTableTransitions ==
    [][ \A r \in Reqs :
          ( /\ Answered(r)
            /\ req'[r].op = "updateSaleStatus"
            /\ req'[r].oldStatus \in SaleStatus )
          => /\ req'[r].resp = 200
                  => <<req'[r].oldStatus, req'[r].status>> \in ClaimedTransitions
             /\ <<req'[r].oldStatus, req'[r].status>> \notin ClaimedTransitions
                  => /\ req'[r].resp = 400
                     /\ req[r].pc \in {"idle", "done"}
                     /\ UNCHANGED <<product, inventoryLog, sale>> ]_vars

C9_Witness ==
    \E r \in Reqs : /\ IsDone(r, "updateSaleStatus")
                    /\ req[r].oldStatus = "CANCELLED"
                    /\ req[r].status \in SaleStatus
                    /\ req[r].resp = 400

\* C10: once a sale's status is CANCELLED or REFUNDED it never changes.
C10_TerminalStatusStays ==
    [][ \A id \in DOMAIN sale :
          sale[id].status \in {"CANCELLED", "REFUNDED"}
          => id \in DOMAIN sale' /\ sale'[id].status = sale[id].status ]_vars

\* a REFUNDED sale on which a second request, validated while the sale was
\* still COMPLETED, has committed too
C10_Witness ==
    /\ BothDone("updateSaleStatus")
    /\ req[1].saleId = req[2].saleId
    /\ req[1].resp = 200 /\ req[2].resp = 200
    /\ req[1].saleId \in DOMAIN sale
    /\ sale[req[1].saleId].status = "REFUNDED"

\* a finished status request to REFUNDED or CANCELLED that got past the
\* validation of the transition
IsRestockRequest(r) ==
    /\ IsDone(r, "updateSaleStatus")
    /\ req[r].oldStatus \in SaleStatus
    /\ isValidStatusTransition(req[r].oldStatus, req[r].status)
    /\ RestocksInventory(req[r].status)

RECURSIVE SumTotalPrice(_)
SumTotalPrice(items) ==
    IF items = <<>> THEN 0 ELSE Head(items).totalPrice + SumTotalPrice(Tail(items))

\* C12: for every sale persisted by createSale, each line item's totalPrice
\* is quantity x unitPrice, the sale's totalAmount is the sum of its line
\* items' totalPrice, and finalAmount = totalAmount + taxAmount - discount.
C12_SaleTotals ==
    \A id \in DOMAIN sale :
        /\ \A i \in 1..Len(sale[id].items) :
              sale[id].items[i].totalPrice =
                  sale[id].items[i].quantity * sale[id].items[i].unitPrice
        /\ sale[id].totalAmount = SumTotalPrice(sale[id].items)
        /\ sale[id].finalAmount =
              sale[id].totalAmount + sale[id].taxAmount - sale[id].discount

\* a persisted sale of two line items with a tax and a discount
C12_Witness ==
    \E id \in DOMAIN sale :
        /\ Len(sale[id].items) = 2
        /\ sale[id].discount > 0 /\ sale[id].taxAmount > 0
        /\ sale[id].items[1].unitPrice # sale[id].items[2].unitPrice

\* the amounts, the number and the line items of a sale row
SaleAmounts(row) ==
    <<row.totalAmount, row.taxAmount, row.discount, row.finalAmount,
      row.saleNumber, row.items>>

\* C13: a line item's unitPrice is the request's override when one is
\* supplied, otherwise the product's price as read inside the sale
\* transaction; a later change of the product's price leaves the line items
\* and the amounts of every existing sale unchanged.
C13_UnitPriceSnapshot ==
    [][ /\ \A r \in Reqs :
              Len(req'[r].saleItemsData) = Len(req[r].saleItemsData) + 1 =>
                LET it == req[r].items[req[r].idx]
                    d == req'[r].saleItemsData[Len(req'[r].saleItemsData)]
                IN d.unitPrice = IF "unitPrice" \in DOMAIN it THEN it.unitPrice
                                 ELSE product[it.productId].price
        /\ \A id \in DOMAIN sale :
              id \in DOMAIN sale' /\ SaleAmounts(sale'[id]) = SaleAmounts(sale[id])
      ]_vars

\* C14: after a sale is created no operation changes its totalAmount,
\* taxAmount, discount, finalAmount, sale number or line items;
\* updateSaleStatus changes only the sale's status.
C14_SaleAmountsImmutable ==
    [][ \A id \in DOMAIN sale :
          id \in DOMAIN sale' /\ SaleAmounts(sale'[id]) = SaleAmounts(sale[id]) ]_vars

\* a refunded sale of a product whose price was changed after the sale
C14_Witness ==
    \E id \in DOMAIN sale :
        /\ sale[id].status = "REFUNDED"
        /\ \E i \in 1..Len(sale[id].items) :
              /\ sale[id].items[i].unitPrice = InitPrice[sale[id].items[i].productId]
              /\ product[sale[id].items[i].productId].price
                    # InitPrice[sale[id].items[i].productId]

\* C15: the inventory log is append-only: no operation modifies or removes
\* an existing entry, and a refund or cancellation adds RETURN entries while
\* the sale's SALE entries stay in the log unchanged.
C15_LogAppendOnly ==
    [][ /\ Len(inventoryLog') >= Len(inventoryLog)
        /\ \A i \in DOMAIN inventoryLog : inventoryLog'[i] = inventoryLog[i] ]_vars

\* a SALE entry followed by the RETURN entry of the same sale and product
C15_Witness ==
    \E i, j \in DOMAIN inventoryLog :
        /\ i < j
        /\ inventoryLog[i].type = "SALE" /\ inventoryLog[j].type = "RETURN"
        /\ inventoryLog[i].saleId = inventoryLog[j].saleId
        /\ inventoryLog[i].productId = inventoryLog[j].productId

\* C16: no two persisted sales share a sale number; of two createSale
\* requests that generated the same number at most one is persisted, under
\* its number, and the other fails.
C16_UniqueSaleNumber ==
    /\ \A a, b \in DOMAIN sale : sale[a].saleNumber = sale[b].saleNumber => a = b
    /\ \A r \in Reqs :
          IsDone(r, "createSale") /\ req[r].resp = 201 =>
            /\ req[r].n \in DOMAIN sale
            /\ sale[req[r].n].saleNumber = req[r].saleNumber
    /\ ( /\ \A r \in Reqs : IsDone(r, "createSale") /\ req[r].saleNumber # 0
          /\ req[1].saleNumber = req[2].saleNumber )
        => ~(req[1].resp = 201 /\ req[2].resp = 201)

\* two concurrent createSale requests drew the same number: one is persisted,
\* the other failed on the unique index
C16_Witness ==
    /\ BothDone("createSale")
    /\ req[1].saleNumber = req[2].saleNumber
    /\ req[1].saleNumber # 0
    /\ {req[1].resp, req[2].resp} = {201, 500}
    /\ \E id \in DOMAIN sale : sale[id].saleNumber = req[1].saleNumber

\* this step is one in which an audit-log write of the request in slot r fails
AuditFailsIn(r) == req'[r].audit = "failed" /\ req[r].audit # "failed"

\* C17: if the audit-log write fails after stockIn, stockOut, adjustStock,
\* createSale or updateSaleStatus has committed, the operation still reports
\* success and its committed quantity, log and sale changes stay.
C17_AuditFailureHarmless ==
    [][ \A r \in Reqs :
          AuditFailsIn(r) =>
            /\ req'[r].pc = "done" => req'[r].resp \in {200, 201}
            /\ req[r].pc \in {"si_txwrite", "so_txwrite", "as_txwrite", "inv_txwrite"} =>
                  /\ Len(inventoryLog') = Len(inventoryLog) + 1
                  /\ LET e == inventoryLog'[Len(inventoryLog')]
                     IN /\ e.n = req[r].n
                        /\ product'[e.productId].quantity = e.newStock
            /\ req[r].pc = "commit" /\ req[r].op = "createSale" =>
                  req[r].n \in DOMAIN sale'
            /\ req[r].pc = "commit" /\ req[r].op = "updateSaleStatus" =>
                  sale'[req[r].saleId].status = req[r].status ]_vars

\* a stock request and a sale, both answered with success although their
\* audit-log writes failed
C17_Witness ==
    /\ \E r \in Reqs : /\ req[r].pc = "done" /\ req[r].audit = "failed"
                        /\ req[r].op \in {"stockIn", "stockOut", "adjustStock"}
                        /\ req[r].resp = 200
    /\ \E r \in Reqs : /\ IsDone(r, "createSale") /\ req[r].audit = "failed"
                        /\ req[r].resp = 201 /\ req[r].n \in DOMAIN sale

\* the operations of the inventory ledger
LedgerOps == {"stockIn", "stockOut", "adjustStock", "createSale", "updateSaleStatus"}

\* C18: a product's quantity is changed only by the ledger operations
\* (stockIn, stockOut, adjustStock, sale and return movement); product
\* update, product stock-update and product delete change no quantity.
C18_OnlyLedgerWritesQuantity ==
    [][ \A p \in AllProducts :
          product[p].exists /\ product'[p].quantity # product[p].quantity =>
            /\ Len(inventoryLog') = Len(inventoryLog) + 1
            /\ inventoryLog'[Len(inventoryLog')].productId = p
            /\ inventoryLog'[Len(inventoryLog')].op \in LedgerOps ]_vars

\* C19: stockIn with q > 0 on an existing active product raises the quantity
\* by exactly q relative to its quantity at the moment of the write and
\* appends one STOCK_IN entry; with q <= 0 it fails as invalid and with a
\* missing or inactive product as not found, changing nothing.
C19_StockIn ==
    [][ \A r \in Reqs :
          Answered(r) /\ req'[r].op = "stockIn" =>
            LET p == req'[r].productId
                q == req'[r].quantity
            IN IF q <= 0
                  THEN req'[r].resp = 400 /\ UNCHANGED <<product, inventoryLog>>
               ELSE IF ~FoundActive(p)
                  THEN req'[r].resp = 404 /\ UNCHANGED <<product, inventoryLog>>
               ELSE /\ req'[r].resp = 200
                    /\ product'[p].quantity = product[p].quantity + q
                    /\ Len(inventoryLog') = Len(inventoryLog) + 1
                    /\ inventoryLog'[Len(inventoryLog')].type = "STOCK_IN"
                    /\ inventoryLog'[Len(inventoryLog')].productId = p ]_vars

\* C20: stockOut with q on an active product fails with insufficient stock
\* exactly when q exceeds the current quantity, changing nothing; otherwise
\* (q equal to the quantity included) it lowers the quantity by exactly q and
\* appends one STOCK_OUT entry with previousStock = the old quantity and
\* newStock = the old quantity - q.
C20_StockOut ==
    [][ \A r \in Reqs :
          ( /\ Answered(r) /\ req'[r].op = "stockOut"
            /\ req'[r].quantity > 0 /\ FoundActive(req'[r].productId) ) =>
            LET p == req'[r].productId
                q == req'[r].quantity
                old == product[p].quantity
            IN IF q > old
                  THEN req'[r].resp = 400 /\ UNCHANGED <<product, inventoryLog>>
               ELSE /\ req'[r].resp = 200
                    /\ product'[p].quantity = old - q
                    /\ Len(inventoryLog') = Len(inventoryLog) + 1
                    /\ LET e == inventoryLog'[Len(inventoryLog')]
                       IN /\ e.type = "STOCK_OUT" /\ e.productId = p
                          /\ e.previousStock = old /\ e.newStock = old - q ]_vars

\* C21: adjustStock with target t >= 0 sets the quantity to exactly t and
\* appends one entry whose quantity is |t - current| and whose type is
\* STOCK_IN if t > current and STOCK_OUT otherwise, current being the
\* quantity at the moment of the write; t < 0 fails as invalid and a missing
\* product as not found, changing nothing.
C21_AdjustStock ==
    [][ \A r \in Reqs :
          Answered(r) /\ req'[r].op = "adjustStock" =>
            LET p == req'[r].productId
                t == req'[r].quantity
                current == product[p].quantity
            IN IF t < 0
                  THEN req'[r].resp = 400 /\ UNCHANGED <<product, inventoryLog>>
               ELSE IF ~Found(p)
                  THEN req'[r].resp = 404 /\ UNCHANGED <<product, inventoryLog>>
               ELSE FoundActive(p) =>
                    /\ req'[r].resp = 200
                    /\ product'[p].quantity = t
                    /\ Len(inventoryLog') = Len(inventoryLog) + 1
                    /\ LET e == inventoryLog'[Len(inventoryLog')]
                       IN /\ e.productId = p /\ e.newStock = t
                          /\ e.quantity = Abs(t - current)
                          /\ e.type = IF t > current THEN "STOCK_IN"
                                      ELSE "STOCK_OUT" ]_vars

\* a body that createSale has to refuse before it reads any product
RefusedBody(rec) ==
    \/ Len(rec.items) = 0
    \/ \E i \in 1..Len(rec.items) : rec.items[i].quantity <= 0
    \/ rec.paymentMethod = "none"
    \/ rec.customerId # "none" /\ rec.customerId \notin Customers

\* C22: a createSale request refused for an empty items list, an item with
\* non-positive quantity, a missing payment method, an unknown customer or a
\* missing or inactive product returns an error (invalid argument or not
\* found) and leaves sales, line items, quantities and the log unchanged.
C22_RefusedSaleChangesNothing ==
    [][ \A r \in Reqs :
          Answered(r) /\ req'[r].op = "createSale" =>
            /\ RefusedBody(req'[r]) =>
                  /\ req'[r].resp \in {400, 404}
                  /\ UNCHANGED <<product, inventoryLog, sale>>
            /\ ( /\ req[r].pc = "cs_validate"
                 /\ ~FoundActive(CurItem(req[r]).productId) ) =>
                  /\ req'[r].resp = 404
                  /\ UNCHANGED <<product, inventoryLog, sale>>
                  /\ EntriesOf(req[r].n) = {}
                  /\ req[r].n \notin DOMAIN sale ]_vars

\* one request refused for its body and one refused for a deactivated product
C22_Witness ==
    /\ \E r \in Reqs : /\ IsDone(r, "createSale") /\ RefusedBody(req[r])
                        /\ req[r].resp = 400
    /\ \E r \in Reqs : /\ IsDone(r, "createSale") /\ ~RefusedBody(req[r])
                        /\ req[r].resp = 404
                        /\ \E i \in 1..Len(req[r].items) :
                              ~product[req[r].items[i].productId].isActive

C24_LogQuantityPositive ==
    \A i \in DOMAIN inventoryLog : inventoryLog[i].quantity > 0

\* the change of stock an entry stands for
SignedQuantity(e) ==
    IF e.type \in {"STOCK_IN", "RETURN"} THEN e.quantity
    ELSE IF e.type \in {"STOCK_OUT", "SALE"} THEN -e.quantity
    ELSE 0

RECURSIVE LogSum(_, _)
LogSum(log, p) ==
    IF log = <<>> THEN 0
    ELSE (IF Head(log).productId = p THEN SignedQuantity(Head(log)) ELSE 0)
         + LogSum(Tail(log), p)

\* every entry of product p was written by a ledger operation
LedgerOnly(p) ==
    \A i \in DOMAIN inventoryLog :
        inventoryLog[i].productId = p => inventoryLog[i].op \in LedgerOps

\* C25: a product's quantity equals its initial quantity plus the quantities
\* of its STOCK_IN and RETURN entries minus those of its STOCK_OUT and SALE
\* entries; no committed movement is lost when ledger operations interleave.
C25_QuantityIsLogSum ==
    \A p \in SeedProducts :
        LedgerOnly(p) =>
          product[p].quantity = InitQuantity[p] + LogSum(inventoryLog, p)

\* the entries of product p, in the order they were written
EntriesOfProduct(p) == SelectSeq(inventoryLog, LAMBDA e : e.productId = p)

\* C26: a product's log entries form a chain: each entry's previousStock is
\* the newStock of the product's preceding entry, or the initial quantity
\* for its first entry, under any interleaving of the ledger operations.
C26_LogChain ==
    \A p \in SeedProducts :
        LedgerOnly(p) =>
          LET es == EntriesOfProduct(p)
          IN \A k \in 1..Len(es) :
                es[k].previousStock = IF k = 1 THEN InitQuantity[p]
                                      ELSE es[k - 1].newStock

C28_OnlyCompletedOrRefunded ==
    /\ \A id \in DOMAIN sale : sale[id].status \in {"COMPLETED", "REFUNDED"}
    /\ \A r \in Reqs :
          req[r].op = "updateSaleStatus" /\ req[r].status = "CANCELLED"
          => req[r].pc \in {"idle", "done"} /\ req[r].resp # 200

\* a refunded sale, and a request to cancel a stored sale that was refused
C28_Witness ==
    /\ \E id \in DOMAIN sale : sale[id].status = "REFUNDED"
    /\ \E r \in Reqs : /\ IsDone(r, "updateSaleStatus")
                        /\ req[r].status = "CANCELLED"
                        /\ req[r].saleId \in DOMAIN sale
                        /\ req[r].resp = 400

\* a list of items that names a product more than once
HasRepeatedProduct(items) ==
    \E i, j \in 1..Len(items) : i < j /\ items[i].productId = items[j].productId

\* C29: a persisted sale never has two line items for one product; a
\* createSale request that lists a product more than once persists no sale
\* and no line items, writes no log entry and changes no quantity.
C29_NoRepeatedProduct ==
    /\ \A id \in DOMAIN sale : ~HasRepeatedProduct(sale[id].items)
    /\ \A r \in Reqs :
          req[r].op = "createSale" /\ HasRepeatedProduct(req[r].items) =>
            /\ req[r].resp # 201
            /\ req[r].n \notin DOMAIN sale
            /\ EntriesOf(req[r].n) = {}

\* a refused request that listed p1 twice, each quantity within the stock at
\* arrival and their sum above it
C29_Witness ==
    \E r \in Reqs :
        /\ IsDone(r, "createSale") /\ req[r].resp = 500
        /\ HasRepeatedProduct(req[r].items)
        /\ \A i \in 1..Len(req[r].items) :
              req[r].items[i].quantity <= req[r].snap[req[r].items[i].productId].quantity
        /\ \E q \in AllProducts :
              ItemQty(req[r].items, q) > req[r].snap[q].quantity

====
